---- MODULE Spec2Model ----
(* Hackflight: the update() dispatcher, its four timed tasks and the        *)
(* arming / failsafe state machine of src/src/hackflight.hpp.               *)
(* Time is in microseconds.  Angles are integers in units of pi/4.          *)
EXTENDS Integers, Sequences, FiniteSets, TLC

VARIABLES
    micros,          \* board->getMicros(): what the next clock read returns
    innerTask, outerTask, angleCheckTask, altitudeTask,   \* TimedTask objects
    armed, failsafe, safeToArm, auxState, yawInitial, eulerAngles,
    demandThrottle,  \* receiver->demands[Receiver::DEMAND_THROTTLE]
    op,              \* the last public method that ran: "init" or "update"
    ran,             \* the handlers that ran in the last update() tick, and
                     \* the value of armed when it reached the failsafe check
    rx,              \* what the receiver reported in the last tick
    calls            \* collaborator calls of the last tick, in call order

vars == <<micros, innerTask, outerTask, angleCheckTask, altitudeTask,
          armed, failsafe, safeToArm, auxState, yawInitial, eulerAngles,
          demandThrottle, op, ran, rx, calls>>

----------------------------------------------------------------------------
(* Program constants *)
imuLoopMicro == 3500
rcLoopMilli == 10
altHoldLoopMilli == 25
angleCheckMilli == 500
M_PI == 4
maxArmingAngle == 1
AXIS_ROLL == 1
AXIS_PITCH == 2
AXIS_YAW == 3

(* Bounds of the model *)
StartTime == 495000
MaxTime == 522500
MaxAux == 1

\* The clock reads of the model: the first update() comes StartTime after the
\* timers' epoch (init() waits and flashes the LED first), later reads follow
\* after one of the gaps of Deltas; a later init() takes the longest gap
Deltas == {2500, 7500, 10000}
NextTimes(t) == {n \in {t + d : d \in Deltas} : n <= MaxTime}
InitGap == CHOOSE d \in Deltas : \A e \in Deltas : e <= d

AuxValues == 0..MaxAux
Throttles == {0, 1}
\* IMU samples <<roll, pitch, yaw>> as board->getImu delivers them (yaw in [-pi,pi])
ImuSamples == {<<0, 0, -1>>, <<-1, 1, 1>>}

fabs(x) == IF x < 0 THEN -x ELSE x

----------------------------------------------------------------------------
(* TimedTask (timedtask.hpp is not among the sources; modelled from the     *)
(* PeriodicTask contract of the specification)                              *)
TimedTask_init(period) == [period |-> period, lastFired |-> 0]

\* a peek that captures the task
ready_consuming(task, now) ==
    IF now - task.lastFired >= task.period
    THEN [fired |-> TRUE, task |-> [task EXCEPT !.lastFired = now]]
    ELSE [fired |-> FALSE, task |-> task]

ready(task, now) ==
    [fired |-> now - task.lastFired >= task.period, task |-> task]

\* a check that advances lastFired along the period grid
checkAndUpdate_grid(task, now) ==
    IF now - task.lastFired >= task.period
    THEN [fired |-> TRUE,
          task |-> [task EXCEPT !.lastFired = @ + task.period]]
    ELSE [fired |-> FALSE, task |-> task]

checkAndUpdate(task, now) ==
    IF now - task.lastFired >= task.period
    THEN [fired |-> TRUE, task |-> [task EXCEPT !.lastFired = now]]
    ELSE [fired |-> FALSE, task |-> task]

----------------------------------------------------------------------------
(* The Hackflight object as a record, so that the handlers are functions.   *)
HackflightState ==
    [armed |-> armed, failsafe |-> failsafe, safeToArm |-> safeToArm,
     auxState |-> auxState, yawInitial |-> yawInitial,
     eulerAngles |-> eulerAngles, demandThrottle |-> demandThrottle,
     calls |-> <<>>]

call(h, c) == [h EXCEPT !.calls = Append(@, c)]

\* arming without the tilt guard
armingLogic_noAngle(h, r) ==
    IF r.changed
    THEN IF h.armed
         THEN IF r.disarming THEN [h EXCEPT !.armed = FALSE] ELSE h
         ELSE IF r.arming /\ ~h.failsafe
              THEN LET a == [h EXCEPT !.auxState = r.aux]
                   IN  IF a.auxState = 0 /\ ~a.armed
                       THEN [a EXCEPT !.yawInitial = a.eulerAngles[AXIS_YAW],
                                      !.armed = TRUE]
                       ELSE a
              ELSE h
    ELSE h

\* arming without the failsafe guard
armingLogic_noFailsafe(h, r) ==
    IF r.changed
    THEN IF h.armed
         THEN IF r.disarming THEN [h EXCEPT !.armed = FALSE] ELSE h
         ELSE IF r.arming /\ h.safeToArm
              THEN LET a == [h EXCEPT !.auxState = r.aux]
                   IN  IF a.auxState = 0 /\ ~a.armed
                       THEN [a EXCEPT !.yawInitial = a.eulerAngles[AXIS_YAW],
                                      !.armed = TRUE]
                       ELSE a
              ELSE h
    ELSE h

\* disarming only with the aux switch at 0
armingLogic_guardedDisarm(h, r) ==
    IF r.changed
    THEN IF h.armed
         THEN IF r.disarming /\ r.aux = 0 THEN [h EXCEPT !.armed = FALSE]
              ELSE h
         ELSE IF r.arming /\ ~h.failsafe /\ h.safeToArm
              THEN LET a == [h EXCEPT !.auxState = r.aux]
                   IN  IF a.auxState = 0 /\ ~a.armed
                       THEN [a EXCEPT !.yawInitial = a.eulerAngles[AXIS_YAW],
                                      !.armed = TRUE]
                       ELSE a
              ELSE h
    ELSE h

\* outer(), lines 168-201: arming and disarming, only on changed inputs
armingLogic(h, r) ==
    IF r.changed
    THEN IF h.armed
         THEN IF r.disarming THEN [h EXCEPT !.armed = FALSE] ELSE h
         ELSE IF r.arming /\ ~h.failsafe /\ h.safeToArm
              THEN LET a == [h EXCEPT !.auxState = r.aux]
                   IN  IF a.auxState = 0 /\ ~a.armed
                       THEN [a EXCEPT !.yawInitial = a.eulerAngles[AXIS_YAW],
                                      !.armed = TRUE]
                       ELSE a
              ELSE h
    ELSE h

\* a hook triggered by the switch level instead of its edge
auxSwitch_level(h, r) ==
    IF r.aux # 0
    THEN call([h EXCEPT !.auxState = r.aux],
              <<"alti.handleAuxSwitch", r.aux, h.demandThrottle>>)
    ELSE [h EXCEPT !.auxState = r.aux]

\* outer(), lines 203-207: aux switch changes
auxSwitch(h, r) ==
    IF r.aux # h.auxState
    THEN call([h EXCEPT !.auxState = r.aux],
              <<"alti.handleAuxSwitch", r.aux, h.demandThrottle>>)
    ELSE h

outer(h, r) ==
    LET h1 == IF r.throttleDown THEN call(h, <<"stab.resetIntegral">>) ELSE h
    IN  auxSwitch(armingLogic(h1, r), r)

\* a mixer that runs the motors of an armed vehicle whatever the throttle
runMixer_noThrottle(h, r) ==
    IF ~h.armed THEN call(h, <<"mixer.runDisarmed">>)
    ELSE IF ~h.failsafe
         THEN call(h, <<"mixer.runArmed", h.demandThrottle>>)
         ELSE call(h, <<"mixer.cutMotors">>)

\* inner(), lines 237-250: the mixer command
runMixer(h, r) ==
    IF ~h.armed THEN call(h, <<"mixer.runDisarmed">>)
    ELSE IF ~h.failsafe /\ ~r.throttleDown
         THEN call(h, <<"mixer.runArmed", h.demandThrottle>>)
         ELSE call(h, <<"mixer.cutMotors">>)

\* inner(): imu is the sample board->getImu delivers, thr the throttle demand
\* that computeExpo and alti.modifyDemand leave behind
inner(h, r, imu, thr) ==
    LET yaw == IF imu[AXIS_YAW] < 0 THEN imu[AXIS_YAW] + 2 * M_PI
               ELSE imu[AXIS_YAW]
        h1 == [h EXCEPT !.eulerAngles = [imu EXCEPT ![AXIS_YAW] = yaw],
                        !.demandThrottle = thr]
        h2 == call(h1, <<"board.ledSet", h1.armed>>)
    IN  runMixer(h2, r)

\* a tilt check that accepts a tilt of exactly maxArmingAngle
checkAngle_inclusive(h) ==
    [h EXCEPT !.safeToArm =
        /\ fabs(h.eulerAngles[AXIS_ROLL]) <= maxArmingAngle
        /\ fabs(h.eulerAngles[AXIS_PITCH]) <= maxArmingAngle]

checkAngle(h) ==
    [h EXCEPT !.safeToArm =
        /\ fabs(h.eulerAngles[AXIS_ROLL]) < maxArmingAngle
        /\ fabs(h.eulerAngles[AXIS_PITCH]) < maxArmingAngle]

\* a failsafe check chained to the tasks: skipped when a handler made a call
failsafeCheck_chained(h, r) ==
    IF h.armed /\ r.lost /\ h.calls = <<>>
    THEN LET h1 == call(h, <<"mixer.cutMotors">>)
             h2 == [h1 EXCEPT !.armed = FALSE, !.failsafe = TRUE]
         IN  call(h2, <<"board.ledSet", FALSE>>)
    ELSE h

\* a failsafe that clears itself when the signal is back
failsafeCheck_autoClear(h, r) ==
    IF h.armed /\ r.lost
    THEN LET h1 == call(h, <<"mixer.cutMotors">>)
             h2 == [h1 EXCEPT !.armed = FALSE, !.failsafe = TRUE]
         IN  call(h2, <<"board.ledSet", FALSE>>)
    ELSE IF ~r.lost THEN [h EXCEPT !.failsafe = FALSE] ELSE h

\* a failsafe that trips on signal loss whether armed or not
failsafeCheck_anyLoss(h, r) ==
    IF r.lost
    THEN LET h1 == call(h, <<"mixer.cutMotors">>)
             h2 == [h1 EXCEPT !.armed = FALSE, !.failsafe = TRUE]
         IN  call(h2, <<"board.ledSet", FALSE>>)
    ELSE h

\* a failsafe check made before the tasks of the tick instead of after them
failsafeCheck_first(h, r) ==
    IF h.armed /\ r.lost
    THEN [h EXCEPT !.armed = FALSE, !.failsafe = TRUE,
                   !.calls = <<<<"mixer.cutMotors">>, <<"board.ledSet", FALSE>>>>
                                \o @]
    ELSE h

\* a failsafe that cuts the motors but leaves the vehicle armed
failsafeCheck_staysArmed(h, r) ==
    IF h.armed /\ r.lost
    THEN LET h1 == call(h, <<"mixer.cutMotors">>)
             h2 == [h1 EXCEPT !.failsafe = TRUE]
         IN  call(h2, <<"board.ledSet", FALSE>>)
    ELSE h

\* update(), lines 148-154
failsafeCheck(h, r) ==
    IF h.armed /\ r.lost
    THEN LET h1 == call(h, <<"mixer.cutMotors">>)
             h2 == [h1 EXCEPT !.armed = FALSE, !.failsafe = TRUE]
         IN  call(h2, <<"board.ledSet", FALSE>>)
    ELSE h

\* the altitude task checked with a plain if, not an else if
slowTasks_both(h, r, currentTime) ==
    LET oc == checkAndUpdate(outerTask, currentTime)
        ac == checkAndUpdate(altitudeTask, currentTime)
        h1 == IF oc.fired THEN outer(h, r) ELSE h
    IN  [outerTask |-> oc.task, altitudeTask |-> ac.task,
         outer |-> oc.fired, alti |-> ac.fired,
         h |-> IF ac.fired THEN call(h1, <<"alti.computePid", h1.armed>>)
               ELSE h1]

\* a slow task that captures the altitude task as well when it fires
slowTasks_swallow(h, r, currentTime) ==
    LET oc == checkAndUpdate(outerTask, currentTime)
        ac == checkAndUpdate(altitudeTask, currentTime)
    IN  [outerTask |-> oc.task, altitudeTask |-> ac.task,
         outer |-> oc.fired, alti |-> ~oc.fired /\ ac.fired,
         h |-> IF oc.fired THEN outer(h, r)
               ELSE IF ac.fired THEN call(h, <<"alti.computePid", h.armed>>)
               ELSE h]

\* update(), lines 128-136: the slow task, else the altitude task
slowTasks(h, r, currentTime) ==
    LET oc == checkAndUpdate(outerTask, currentTime)
        ac == IF oc.fired THEN [fired |-> FALSE, task |-> altitudeTask]
              ELSE checkAndUpdate(altitudeTask, currentTime)
    IN  [outerTask |-> oc.task, altitudeTask |-> ac.task,
         outer |-> oc.fired, alti |-> ac.fired,
         h |-> IF oc.fired THEN outer(h, r)
               ELSE IF ac.fired THEN call(h, <<"alti.computePid", h.armed>>)
               ELSE h]

\* The receiver's answers in a tick whose slow task fired or not: an answer
\* no call of the tick asks for is left at its default, so that rx records
\* what the code saw.  lostSignal() is the receiver's link state.
RxOuter(ranOuter, armedAtOuter) ==
    IF ranOuter
    THEN {r \in [lost : BOOLEAN, throttleDown : {FALSE}, changed : BOOLEAN,
                 arming : BOOLEAN, disarming : BOOLEAN, aux : AuxValues] :
            /\ r.arming => (r.changed /\ ~armedAtOuter)
            /\ r.disarming => (r.changed /\ armedAtOuter)}
    ELSE [lost : BOOLEAN, throttleDown : {FALSE}, changed : {FALSE},
          arming : {FALSE}, disarming : {FALSE}, aux : {0}]

Update ==
    LET currentTime == micros
        oc == checkAndUpdate(outerTask, currentTime)
        ic == checkAndUpdate(innerTask, currentTime)
    IN  \E r0 \in RxOuter(oc.fired, armed) :
        \E down \in IF \/ oc.fired
                       \/ ic.fired /\ armingLogic(HackflightState, r0).armed
                                   /\ ~failsafe
                    THEN BOOLEAN ELSE {FALSE} :
        \E imu \in IF ic.fired THEN ImuSamples ELSE {eulerAngles} :
        \E thr \in IF ic.fired THEN Throttles ELSE {demandThrottle} :
        LET r == [r0 EXCEPT !.throttleDown = down]
        IN  \E s \in {slowTasks(HackflightState, r, currentTime)} :
            \E h2 \in {IF ic.fired THEN inner(s.h, r, imu, thr) ELSE s.h} :
            \E an \in {ready(angleCheckTask, currentTime)} :
            \E h3 \in {IF an.fired THEN checkAngle(h2) ELSE h2} :
            \E h4 \in {failsafeCheck(h3, r)} :
                /\ micros' \in NextTimes(micros)
                /\ outerTask' = s.outerTask
                /\ altitudeTask' = s.altitudeTask
                /\ innerTask' = ic.task
                /\ angleCheckTask' = an.task
                /\ armed' = h4.armed
                /\ failsafe' = h4.failsafe
                /\ safeToArm' = h4.safeToArm
                /\ auxState' = h4.auxState
                /\ yawInitial' = h4.yawInitial
                /\ eulerAngles' = h4.eulerAngles
                /\ demandThrottle' = h4.demandThrottle
                /\ op' = "update"
                /\ ran' = [outer |-> s.outer, alti |-> s.alti,
                           inner |-> ic.fired, angle |-> an.fired,
                           armedAtCheck |-> h3.armed]
                /\ rx' = r
                /\ calls' = h4.calls

NoRx == [lost |-> FALSE, throttleDown |-> FALSE, changed |-> FALSE,
         arming |-> FALSE, disarming |-> FALSE, aux |-> 0]
NoRun == [outer |-> FALSE, alti |-> FALSE, inner |-> FALSE, angle |-> FALSE,
          armedAtCheck |-> FALSE]

\* init(), lines 85-121.  auxState, yawInitial and eulerAngles are not
\* assigned by init(): they keep whatever they held.
HackflightInit ==
    /\ innerTask' = TimedTask_init(imuLoopMicro)
    /\ outerTask' = TimedTask_init(rcLoopMilli * 1000)
    /\ angleCheckTask' = TimedTask_init(angleCheckMilli * 1000)
    /\ altitudeTask' = TimedTask_init(altHoldLoopMilli * 1000)
    /\ armed' = FALSE
    /\ safeToArm' = FALSE
    /\ failsafe' = FALSE
    /\ UNCHANGED <<auxState, yawInitial, eulerAngles, demandThrottle>>
    /\ micros + InitGap <= MaxTime
    /\ micros' = micros + InitGap
    /\ op' = "init"
    /\ ran' = NoRun
    /\ rx' = NoRx
    /\ calls' = <<>>

\* The state after construction and the first init(): the members init()
\* does not assign hold indeterminate values.
Init ==
    /\ micros = StartTime
    /\ innerTask = TimedTask_init(imuLoopMicro)
    /\ outerTask = TimedTask_init(rcLoopMilli * 1000)
    /\ angleCheckTask = TimedTask_init(angleCheckMilli * 1000)
    /\ altitudeTask = TimedTask_init(altHoldLoopMilli * 1000)
    /\ armed = FALSE
    /\ safeToArm = FALSE
    /\ failsafe = FALSE
    /\ auxState \in AuxValues
    /\ yawInitial \in {0, 2}
    /\ eulerAngles \in {<<0, 0, 0>>, <<-1, 1, -1>>}
    /\ demandThrottle \in Throttles
    /\ op = "init"
    /\ ran = NoRun
    /\ rx = NoRx
    /\ calls = <<>>

Next == Update \/ HackflightInit

Spec == Init /\ [][Next]_vars

----------------------------------------------------------------------------
(* One TimedTask on its own: consuming checks and peeks on outerTask, at    *)
(* clock reads that never decrease.  calls logs <<operation, now, result>>. *)
MaxChecks == 4
TaskDeltas == {0, 2500, 5000, 10000}
TaskPeriods == {imuLoopMicro, rcLoopMilli * 1000, altHoldLoopMilli * 1000}

TaskInit ==
    /\ micros = 0
    /\ outerTask \in {TimedTask_init(p) : p \in TaskPeriods}
    /\ innerTask = TimedTask_init(imuLoopMicro)
    /\ angleCheckTask = TimedTask_init(angleCheckMilli * 1000)
    /\ altitudeTask = TimedTask_init(altHoldLoopMilli * 1000)
    /\ armed = FALSE
    /\ safeToArm = FALSE
    /\ failsafe = FALSE
    /\ auxState = 0
    /\ yawInitial = 0
    /\ eulerAngles = <<0, 0, 0>>
    /\ demandThrottle = 0
    /\ op = "init"
    /\ ran = NoRun
    /\ rx = NoRx
    /\ calls = <<>>

TaskApply(name, c) ==
    /\ Len(calls) < MaxChecks
    /\ outerTask' = c.task
    /\ calls' = Append(calls, <<name, micros, c.fired>>)
    /\ op' = name
    /\ micros' \in {micros + d : d \in TaskDeltas}
    /\ UNCHANGED <<innerTask, angleCheckTask, altitudeTask, armed, failsafe,
                   safeToArm, auxState, yawInitial, eulerAngles,
                   demandThrottle, ran, rx>>

TaskCheck == TaskApply("checkAndUpdate", checkAndUpdate(outerTask, micros))
TaskPeek == TaskApply("ready", ready(outerTask, micros))

TaskNext == TaskCheck \/ TaskPeek

TaskSpec == TaskInit /\ [][TaskNext]_vars

----------------------------------------------------------------------------
(* Reading the call log of a tick *)
Called(name) == \E i \in 1..Len(calls) : calls[i][1] = name
CallsOf(cs, name) == SelectSeq(cs, LAMBDA c : c[1] = name)

----------------------------------------------------------------------------
\* C1: in every update() tick, whatever tasks fired in it, if armed is true
\* and the receiver reports signal lost when the failsafe check is reached,
\* then mixer.cutMotors() has been called, armed is false and failsafe is true
\* when the tick returns.
C1_FailsafeCutsAndDisarms ==
    (op = "update" /\ ran.armedAtCheck /\ rx.lost)
        => (Called("mixer.cutMotors") /\ ~armed /\ failsafe)

\* the failsafe trips in a tick in which the slow and the fast task fired too
C1_Witness ==
    /\ op = "update" /\ ran.armedAtCheck /\ rx.lost
    /\ ran.outer /\ ran.inner /\ ran.angle
    /\ Called("mixer.runArmed") /\ ~armed /\ failsafe

\* C2: armed goes from false to true only in a slow-task pass in which
\* failsafe is false, safeToArm is true, the receiver's aux position is 0 and
\* the receiver signals arm intent; with any one of the four false, armed
\* stays false.
C2_ArmingNeedsAllGuards ==
    [][(op' = "update" /\ ~armed /\ (armed' \/ ran'.armedAtCheck))
        => (/\ ran'.outer
            /\ ~failsafe /\ safeToArm
            /\ rx'.aux = 0 /\ rx'.arming)]_vars

\* the vehicle has just armed
C2_Witness ==
    op = "update" /\ ran.outer /\ rx.arming /\ rx.aux = 0 /\ armed

\* C3: once failsafe is true it stays true through every later update() tick,
\* whatever the receiver reports; only init() sets it back to false.
C3_FailsafeSticky ==
    [][(failsafe /\ ~failsafe') => op' = "init"]_vars

\* a tick after the failsafe tripped, with the signal back
C3_Witness ==
    op = "update" /\ failsafe /\ ~rx.lost /\ ~ran.armedAtCheck

\* C4: at the end of every update() tick failsafe implies not armed, so that
\* once the failsafe is set no tick arms the vehicle.
C4_FailsafeImpliesDisarmed ==
    /\ [](failsafe => ~armed)
    /\ [][(failsafe /\ op' = "update")
            => (~armed' /\ ~ran'.armedAtCheck)]_vars

\* an arm request in failsafe, with the aux switch at 0 and a vehicle that
\* was level before the tick (no new IMU sample in it)
C4_Witness ==
    /\ op = "update" /\ failsafe /\ ~rx.lost
    /\ ran.outer /\ rx.arming /\ rx.aux = 0 /\ safeToArm /\ ~ran.inner

\* C5: in every update() tick alti.computePid runs iff the slow task did not
\* fire in the tick and the altitude task's period has elapsed at the tick's
\* timestamp; outer() and alti.computePid never both run in one tick.
C5_AltitudeIffSlowIdle ==
    [][op' = "update"
        => /\ (CallsOf(calls', "alti.computePid") # <<>>)
                <=> (/\ ~ran'.outer
                     /\ micros - altitudeTask.lastFired >= altitudeTask.period)
           /\ ran'.alti <=> (CallsOf(calls', "alti.computePid") # <<>>)
           /\ ~(ran'.outer /\ ran'.alti)
           /\ Len(CallsOf(calls', "alti.computePid")) <= 1]_vars

\* the altitude handler ran, in a tick where the fast task fired as well
C5_Witness ==
    op = "update" /\ Called("alti.computePid") /\ ran.inner /\ ~ran.outer

\* C6: a consuming check (checkAndUpdate) returns true iff now - lastFired >=
\* period; when it returns true lastFired becomes exactly that now, and when it
\* returns false lastFired is unchanged.  update() makes one on the slow task
\* and one on the fast task in every tick, and one on the altitude task in the
\* ticks where the slow task did not fire.
Due(task, now) == now - task.lastFired >= task.period
C6_Consumed(task, taskNext, fired, now) ==
    /\ fired <=> Due(task, now)
    /\ fired => taskNext = [task EXCEPT !.lastFired = now]
    /\ ~fired => taskNext = task
C6_ConsumingCheck ==
    [][op' = "update"
        => /\ C6_Consumed(outerTask, outerTask', ran'.outer, micros)
           /\ C6_Consumed(innerTask, innerTask', ran'.inner, micros)
           /\ ~ran'.outer
                => C6_Consumed(altitudeTask, altitudeTask', ran'.alti, micros)]_vars

\* the fast task fired off the period grid: at a time that is not a multiple of
\* its period after StartTime
C6_Witness ==
    /\ op = "update" /\ ran.inner
    /\ innerTask.lastFired > StartTime
    /\ (innerTask.lastFired - StartTime) % innerTask.period # 0

\* C7: a task initialized with period 10 ms and given consuming checks at
\* now = 0, 5, 10 and 15 ms returns true, false, true, false.
C7_Scenario ==
    /\ outerTask.period = rcLoopMilli * 1000
    /\ Len(calls) = 4
    /\ \A i \in 1..4 : calls[i][1] = "checkAndUpdate"
    /\ <<calls[1][2], calls[2][2], calls[3][2], calls[4][2]>>
            = <<0, 5000, 10000, 15000>>
C7_FiresAtZeroAndTen ==
    C7_Scenario
        => <<calls[1][3], calls[2][3], calls[3][3], calls[4][3]>>
                = <<TRUE, FALSE, TRUE, FALSE>>

\* C8: over every interleaving of consuming checks and peeks at clock reads
\* that never decrease, lastFired never decreases, changes only in a consuming
\* check that returns true, and is left unchanged by every peek.
C8_PeekIsPure ==
    [][/\ outerTask'.lastFired >= outerTask.lastFired
       /\ outerTask'.period = outerTask.period
       /\ outerTask'.lastFired # outerTask.lastFired
            => (op' = "checkAndUpdate" /\ calls'[Len(calls')][3])
       /\ op' = "ready" => outerTask' = outerTask]_vars

\* a peek that answered true, after a consuming check had fired earlier
C8_Witness ==
    /\ Len(calls) >= 2
    /\ calls[Len(calls)][1] = "ready" /\ calls[Len(calls)][3]
    /\ outerTask.lastFired > 0
    /\ outerTask.lastFired < calls[Len(calls)][2]

C10_ArmAfterLevel ==
    [][op' = "update"
        => /\ (~armed /\ ~safeToArm) => (~ran'.armedAtCheck /\ ~armed')
           /\ ran'.angle
                => (safeToArm'
                      <=> /\ fabs(eulerAngles'[AXIS_ROLL]) < maxArmingAngle
                          /\ fabs(eulerAngles'[AXIS_PITCH]) < maxArmingAngle)
           /\ (/\ ran'.outer /\ ~armed /\ safeToArm /\ ~failsafe
               /\ rx'.changed /\ rx'.arming /\ rx'.aux = 0)
                => (ran'.armedAtCheck /\ yawInitial' = eulerAngles[AXIS_YAW])]_vars

\* armed in a tick whose slow pass recorded the yaw cached before the tick,
\* while the fast task of the same tick cached another one
C10_Witness ==
    /\ op = "update" /\ ran.outer /\ rx.arming /\ armed
    /\ ran.inner /\ yawInitial # eulerAngles[AXIS_YAW]
    /\ yawInitial \in {1, 7}

\* C11: failsafe goes from false to true only in a tick that reaches the
\* failsafe check armed with the signal lost; a tick that reaches it disarmed
\* leaves failsafe as it was, even when the receiver reports signal lost.
C11_FailsafeOnlyFromArmed ==
    [][/\ (~failsafe /\ failsafe')
            => (op' = "update" /\ ran'.armedAtCheck /\ rx'.lost)
       /\ (op' = "update" /\ ~ran'.armedAtCheck)
            => (failsafe' = failsafe /\ ~Called("mixer.cutMotors")')]_vars

\* a disarmed vehicle, never in failsafe, whose receiver reports signal lost
C11_Witness ==
    op = "update" /\ rx.lost /\ ~ran.armedAtCheck /\ ~failsafe /\ ran.inner

\* C12: in a tick in which the failsafe triggers, the mixer command of the
\* fast-task handler (if it ran) comes before the failsafe's mixer.cutMotors,
\* and mixer.cutMotors is the last mixer command of the tick.
MixerCalls(cs) ==
    SelectSeq(cs, LAMBDA c : c[1] \in {"mixer.runArmed", "mixer.runDisarmed",
                                       "mixer.cutMotors"})
C12_CutoffIsLast ==
    (op = "update" /\ ran.armedAtCheck /\ rx.lost)
        => LET m == MixerCalls(calls)
           IN  /\ Len(m) = IF ran.inner THEN 2 ELSE 1
               /\ m[Len(m)] = <<"mixer.cutMotors">>
               /\ calls[Len(calls) - 1] = <<"mixer.cutMotors">>
               /\ calls[Len(calls)] = <<"board.ledSet", FALSE>>

\* the failsafe triggers in a tick whose fast task had just run the motors
C12_Witness ==
    /\ op = "update" /\ ran.armedAtCheck /\ rx.lost /\ ran.inner
    /\ MixerCalls(calls)[1][1] = "mixer.runArmed"

\* C13: an arm request that is refused has no side effect: in a slow-task pass
\* entered disarmed with arm intent in which failsafe is set, safeToArm is
\* false or the aux position is not 0, armed, failsafe, safeToArm, auxState and
\* yawInitial are the same after the arming decision as before it.
C13_RefusedArmIsPure ==
    [][(/\ op' = "update" /\ ran'.outer /\ ~armed /\ rx'.arming
        /\ (failsafe \/ ~safeToArm \/ rx'.aux # 0))
        => LET after == armingLogic(HackflightState, rx')
           IN  /\ after.armed = armed
               /\ after.failsafe = failsafe
               /\ after.safeToArm = safeToArm
               /\ after.auxState = auxState
               /\ after.yawInitial = yawInitial]_vars

\* C14: after init() and before the first update(), armed, failsafe and
\* safeToArm are false and auxState is 0.
C14_InitZeroes ==
    op = "init" => (~armed /\ ~failsafe /\ ~safeToArm /\ auxState = 0)

\* C15: in every slow-task pass, armed or not and with or without an arm
\* attempt, if the receiver's aux position differs from the auxState recorded
\* at entry, the pass calls alti.handleAuxSwitch with the new position and the
\* current throttle demand and sets auxState to the new position.
C15_AuxEdgeAlwaysReported ==
    [][(op' = "update" /\ ran'.outer /\ rx'.aux # auxState)
        => /\ CallsOf(calls', "alti.handleAuxSwitch")
                = << <<"alti.handleAuxSwitch", rx'.aux, demandThrottle>> >>
           /\ auxState' = rx'.aux]_vars

\* C16: after checkAngle ran in one tick it does not run again in a later
\* tick until the angle-check period has elapsed since that run.  (All gaps
\* between two ticks are shorter than the period.)
C16_AngleCheckCaptured ==
    [][(/\ op = "update" /\ ran.angle /\ op' = "update"
        /\ \A d \in Deltas : d < angleCheckTask.period)
        => ~ran'.angle]_vars

\* C17: every fast-task pass issues exactly one mixer command: runDisarmed
\* when armed is false; runArmed when armed is true, failsafe false and the
\* throttle not at minimum; cutMotors otherwise.
InnerCommand(isArmed, inFailsafe, throttleDown, thr) ==
    IF ~isArmed THEN <<"mixer.runDisarmed">>
    ELSE IF ~inFailsafe /\ ~throttleDown THEN <<"mixer.runArmed", thr>>
    ELSE <<"mixer.cutMotors">>
Tripped == ran.armedAtCheck /\ rx.lost
C17_OneMixerCommand ==
    [][op' = "update"
        => LET m == MixerCalls(calls')
           IN  /\ Len(m) = (IF ran'.inner THEN 1 ELSE 0)
                            + (IF Tripped' THEN 1 ELSE 0)
               /\ ran'.inner
                    => m[1] = InnerCommand(ran'.armedAtCheck, failsafe,
                                           rx'.throttleDown, demandThrottle')]_vars

\* the fast task cut the motors of an armed vehicle with the throttle down
C17_Witness ==
    /\ op = "update" /\ ran.inner /\ armed /\ rx.throttleDown
    /\ MixerCalls(calls) = << <<"mixer.cutMotors">> >>

\* C18: in every slow-task pass entered armed in which the receiver reports
\* changed inputs and a disarm intent, armed is false when the pass ends,
\* whatever safeToArm, the aux position and the throttle are.
C18_DisarmUnguarded ==
    [][(op' = "update" /\ ran'.outer /\ armed /\ rx'.changed /\ rx'.disarming)
        => (~ran'.armedAtCheck /\ ~armed')]_vars

\* disarmed on request with the aux switch at 1, the throttle up and a tilted
\* vehicle
C18_Witness ==
    /\ op = "update" /\ ran.outer /\ rx.disarming /\ ~armed /\ ~failsafe
    /\ rx.aux = 1 /\ ~rx.throttleDown /\ ~safeToArm /\ ran.angle

\* C19: whenever the fast-task handler runs, armed and failsafe are not both
\* true, so it issues cutMotors only with the throttle at minimum; on every
\* fast-task pass after the failsafe has been set it issues runDisarmed.
C19_InnerNeverArmedInFailsafe ==
    [][(op' = "update" /\ ran'.inner)
        => LET m == MixerCalls(calls')
           IN  /\ ~(ran'.armedAtCheck /\ failsafe)
               /\ m[1] = <<"mixer.cutMotors">> => rx'.throttleDown
               /\ failsafe => m[1] = <<"mixer.runDisarmed">>]_vars

\* a fast-task pass in a tick after the failsafe tripped
C19_Witness ==
    /\ op = "update" /\ ran.inner /\ failsafe /\ ~Tripped
    /\ MixerCalls(calls) = << <<"mixer.runDisarmed">> >>

\* C20: when the altitude task's period has elapsed at a tick, the altitude
\* handler runs in that tick unless the slow task fires in it; the altitude task
\* then stays due and the handler runs in the next tick if that one comes less
\* than the slow-task period later.  A tick that comes at least the slow-task
\* period after init() or after a tick in which the slow task fired fires the
\* slow task again and does not run the altitude handler.
C20_AltitudeNotStarved ==
    [][op' = "update"
        => /\ (Due(altitudeTask, micros) /\ ~ran'.outer) => ran'.alti
           /\ (Due(altitudeTask, micros) /\ ran'.outer)
                => (altitudeTask' = altitudeTask /\ outerTask'.lastFired = micros)
           /\ (/\ op = "update" /\ ran.outer
               /\ Due(altitudeTask, outerTask.lastFired)
               /\ micros - outerTask.lastFired < outerTask.period)
                => ran'.alti
           /\ (/\ op = "init" \/ ran.outer
               /\ micros - outerTask.lastFired >= outerTask.period)
                => (ran'.outer /\ ~ran'.alti)]_vars

\* the altitude handler ran 2.5 ms after the first tick, in which it was due
\* and the slow task fired instead
C20_Witness ==
    /\ op = "update" /\ ran.alti /\ ~ran.outer
    /\ outerTask.lastFired = StartTime
    /\ altitudeTask.lastFired = StartTime + 2500

====
